---- MODULE Spec2Model ----
(***************************************************************************)
(* AtmoSphere backend: the point evaluator (backend/nasa_service.py) and   *)
(* the region sampler / aggregator (backend/main.py, analyze_polygon).     *)
(*                                                                         *)
(* Numbers.  Python floats are modelled by exact rationals [n, d] with     *)
(* d > 0 over integer inputs; the 1e-12 guard of point_in_poly is an       *)
(* infinitesimal (it only decides exact ties).  round() is Python's        *)
(* round-half-to-even on the exact value; the input sets keep the means    *)
(* that round(x, 2) rounds away from decimal ties, where a binary float    *)
(* and the exact value can round differently.                              *)
(* The heat-index polynomials are evaluated exactly in units of 1e-8.      *)
(*                                                                         *)
(* Specifications.  SpecPoint: analyze_point.  SpecRegion: analyze_polygon *)
(* with its coroutines interleaved.  SpecSampling, SpecSpecial, SpecHeat:  *)
(* the sampler, the specialty-score aggregation and calculate_heat_index   *)
(* as functions of their inputs.                                           *)
(***************************************************************************)
EXTENDS Integers, Sequences, FiniteSets, TLC

VARIABLES
    request,    \* the request body being handled
    hpc,        \* position of the handler coroutine
    samples,    \* analyze_polygon: the sample list (lat, lon)
    tested,     \* analyze_polygon: grid cells handed to point_in_poly
    tasks,      \* the get_climatological_analysis coroutines awaited
    response    \* the HTTP outcome of the handler

vars == <<request, hpc, samples, tested, tasks, response>>

None == [none |-> TRUE]

---------------------------------------------------------------------------
(* Arithmetic helpers *)

Rat(n, d) == [n |-> n, d |-> d]

RECURSIVE SumSeq(_)
SumSeq(s) == IF s = <<>> THEN 0 ELSE Head(s) + SumSeq(Tail(s))

MinSeq(s) == CHOOSE x \in {s[k] : k \in 1..Len(s)} : \A k \in 1..Len(s) : x <= s[k]

MaxSeq(s) == CHOOSE x \in {s[k] : k \in 1..Len(s)} : \A k \in 1..Len(s) : x >= s[k]

\* Python round(num / den) for den > 0: nearest integer, ties to even.
PyRound(num, den) ==
    LET q == num \div den
        r == num % den
    IN  IF 2 * r < den THEN q
        ELSE IF 2 * r > den THEN q + 1
        ELSE IF q % 2 = 0 THEN q ELSE q + 1

\* int(math.ceil(math.sqrt(n))) for n >= 0
CeilSqrt(n) == CHOOSE s \in 0..n : s * s >= n /\ (s = 0 \/ (s - 1) * (s - 1) < n)

\* A float of the heat-index formulas, held exactly as a count of 1e-8 in three
\* limbs: Dec(a, b, c) is a + b/10^4 + c/10^8 with 0 <= b, c < 10^4.
Limb == 10000

DecNorm(a, b, c) ==
    LET c1 == c % Limb
        b0 == b + (c \div Limb)
        b1 == b0 % Limb
    IN  [a |-> a + (b0 \div Limb), b |-> b1, c |-> c1]

Dec(a, b, c) == DecNorm(a, b, c)

DecAdd(x, y) == DecNorm(x.a + y.a, x.b + y.b, x.c + y.c)

DecNeg(x) == DecNorm(0 - x.a, 0 - x.b, 0 - x.c)

DecSub(x, y) == DecAdd(x, DecNeg(y))

\* x * k for an integer k
DecScale(x, k) == DecNorm(x.a * k, x.b * k, x.c * k)

\* 0.5 * x (exact: every x halved here is an even count of 1e-8)
DecHalf(x) ==
    LET b0 == (x.a % 2) * Limb + x.b
        c0 == (b0 % 2) * Limb + x.c
    IN  [a |-> x.a \div 2, b |-> b0 \div 2, c |-> c0 \div 2]

DecLeq(x, y) ==
    \/ x.a < y.a
    \/ x.a = y.a /\ x.b < y.b
    \/ x.a = y.a /\ x.b = y.b /\ x.c <= y.c

DecAbs(x) == IF x.a < 0 THEN DecNeg(x) ELSE x

---------------------------------------------------------------------------
(* Region sampler: main.py lines 95-143.  A ring is a sequence of          *)
(* <<lon, lat>> vertices.  A sample is [lat, lon] with rational fields.    *)

\* the index j paired with vertex i in the loop of point_in_poly
PrevIndexStuck(i, n) == n

PrevIndex(i, n) == IF i = 1 THEN n ELSE i - 1

\* lon < (xj - xi) * (lat - yi) / (yj - yi + 1e-12) + xi, evaluated only when
\* (yi > lat) # (yj > lat), hence yj # yi.  With D = yj - yi and
\* N = (xj - xi) * (lat - yi) the guard moves N / (D + eps) above N / D
\* exactly when N < 0, which decides the tie lon - xi = N / D.
Crosses(lon, lat, xi, yi, xj, yj) ==
    LET D   == yj - yi
        N   == (xj - xi) * (lat.n - yi * lat.d)
        lhs == (lon.n - xi * lon.d) * lat.d * D
        rhs == N * lon.d
    IN  IF lhs = rhs THEN N < 0
        ELSE IF D > 0 THEN lhs < rhs ELSE lhs > rhs

Intersect(lon, lat, poly, i) ==
    LET j  == PrevIndex(i, Len(poly))
        xi == poly[i][1]
        yi == poly[i][2]
        xj == poly[j][1]
        yj == poly[j][2]
    IN  ((yi * lat.d > lat.n) # (yj * lat.d > lat.n))
        /\ Crosses(lon, lat, xi, yi, xj, yj)

RECURSIVE PipLoop(_, _, _, _, _)
PipLoop(lon, lat, poly, i, inside) ==
    IF i > Len(poly) THEN inside
    ELSE PipLoop(lon, lat, poly, i + 1,
                 IF Intersect(lon, lat, poly, i) THEN ~inside ELSE inside)

point_in_poly(lon, lat, poly) == PipLoop(lon, lat, poly, 1, FALSE)

Lons(ring) == [k \in 1..Len(ring) |-> ring[k][1]]

Lats(ring) == [k \in 1..Len(ring) |-> ring[k][2]]

SampleCap == 36

TargetNoCap(sample_count) == IF sample_count < 1 THEN 1 ELSE sample_count

\* target = max(1, min(36, int(request.sample_count)))
Target(sample_count) ==
    LET capped == IF sample_count > SampleCap THEN SampleCap ELSE sample_count
    IN  IF capped < 1 THEN 1 ELSE capped

\* side = max(1, int(math.ceil(math.sqrt(target))))
Side(target) == IF CeilSqrt(target) < 1 THEN 1 ELSE CeilSqrt(target)

BoxCentre(ring) ==
    [lat |-> Rat(MinSeq(Lats(ring)) + MaxSeq(Lats(ring)), 2),
     lon |-> Rat(MinSeq(Lons(ring)) + MaxSeq(Lons(ring)), 2)]

\* (sum(lats) / len(lats), sum(lons) / len(lons))
Centroid(ring) ==
    [lat |-> Rat(SumSeq(Lats(ring)), Len(ring)),
     lon |-> Rat(SumSeq(Lons(ring)), Len(ring))]

\* lon = min_lon + (i + 0.5) * lon_step, lat = min_lat + (j + 0.5) * lat_step
\* with lon_step = (max_lon - min_lon) / side, lat_step likewise
CellCentre(ring, side, i, j) ==
    [lat |-> Rat(2 * side * MinSeq(Lats(ring))
                    + (2 * j + 1) * (MaxSeq(Lats(ring)) - MinSeq(Lats(ring))),
                 2 * side),
     lon |-> Rat(2 * side * MinSeq(Lons(ring))
                    + (2 * i + 1) * (MaxSeq(Lons(ring)) - MinSeq(Lons(ring))),
                 2 * side)]

RECURSIVE GridScanInnerBreakOnly(_, _, _, _, _)
GridScanInnerBreakOnly(ring, side, target, c, acc) ==
    IF c >= side * side THEN [samples |-> acc, tested |-> c]
    ELSE LET p   == CellCentre(ring, side, c \div side, c % side)
             nxt == IF point_in_poly(p.lon, p.lat, ring) THEN Append(acc, p) ELSE acc
         IN  IF Len(nxt) >= target
             THEN GridScanInnerBreakOnly(ring, side, target, (c \div side + 1) * side, nxt)
             ELSE GridScanInnerBreakOnly(ring, side, target, c + 1, nxt)

\* The two nested loops over range(side) with their two breaks: cell c is
\* (i, j) = (c \div side, c % side); after each cell the scan stops as soon
\* as len(samples) >= target.
RECURSIVE GridScan(_, _, _, _, _)
GridScan(ring, side, target, c, acc) ==
    IF c >= side * side THEN [samples |-> acc, tested |-> c]
    ELSE LET p   == CellCentre(ring, side, c \div side, c % side)
             nxt == IF point_in_poly(p.lon, p.lat, ring) THEN Append(acc, p) ELSE acc
         IN  IF Len(nxt) >= target
             THEN [samples |-> nxt, tested |-> c + 1]
             ELSE GridScan(ring, side, target, c + 1, nxt)

Degenerate(ring) ==
    \/ MaxSeq(Lons(ring)) - MinSeq(Lons(ring)) <= 0
    \/ MaxSeq(Lats(ring)) - MinSeq(Lats(ring)) <= 0

\* lines 116-143: the sample list and the number of cells tested
BuildSamples(ring, sample_count) ==
    LET target == Target(sample_count)
        side   == Side(target)
    IN  IF Degenerate(ring)
        THEN [samples |-> <<Centroid(ring)>>, tested |-> 0]
        ELSE LET g == GridScan(ring, side, target, 0, <<>>)
             IN  IF g.samples = <<>>
                 THEN [samples |-> <<Centroid(ring)>>, tested |-> g.tested]
                 ELSE g

---------------------------------------------------------------------------
(* Point evaluator: nasa_service.py, get_climatological_analysis.          *)
(* The JSON body of the provider is [title, parameter]; parameter maps a   *)
(* parameter name to a map from month key to value.  Statistics are        *)
(* integers; the clearness index KT is held in hundredths.  Temperatures   *)
(* of the input sets do not exceed WarmLimit, so that the heat-index branch *)
(* of line 101 is not taken and uncomfortable_chance stays 0.              *)

MonthNames ==
    <<"JAN", "FEB", "MAR", "APR", "MAY", "JUN",
      "JUL", "AUG", "SEP", "OCT", "NOV", "DEC">>

\* datetime(2000, month, 1) raises ValueError outside 1..12
MonthValid(month) == month \in 1..12

\* raw_params.get(param, {}).get(month_key, default)
Get(raw, param, key, default) ==
    IF param \in DOMAIN raw /\ key \in DOMAIN raw[param]
    THEN raw[param][key] ELSE default

MissingDefault == -999

MissingThreshold == -900

IsMissingCodeNever(temp_avg) == FALSE

\* if temp_avg < -900: raise KeyError(...)
IsMissingCode(temp_avg) == temp_avg < MissingThreshold

RainFactor == 15

\* rain_probability = min(precip_avg_daily * 15, 100)
RainProbability(precip) ==
    IF precip * RainFactor < 100 THEN precip * RainFactor ELSE 100

\* T_F = T * 9/5 + 32, for a Celsius reading T = n/d that falls on a whole
\* degree Fahrenheit
Fahrenheit(T) == (T.n * 9) \div (T.d * 5) + 32

BranchLimit == 80

\* HI_F = 0.5 * (T_F + 61.0 + ((T_F - 68.0) * 1.2) + (RH * 0.094))
SimpleFormula(T_F, RH) ==
    DecHalf(DecAdd(DecAdd(Dec(T_F + 61, 0, 0), DecScale(Dec(1, 2000, 0), T_F - 68)),
                   DecScale(Dec(0, 940, 0), RH)))

\* HI_F = -42.379 + 2.04901523*T_F + 10.14333127*RH - .22475541*T_F*RH
\*        - .00683783*T_F*T_F - .05481717*RH*RH + .00122874*T_F*T_F*RH
\*        + .00085282*T_F*RH*RH - .00000199*T_F*T_F*RH*RH
Rothfusz(T_F, RH) ==
    LET t1 == DecScale(Dec(2, 490, 1523), T_F)
        t2 == DecScale(Dec(10, 1433, 3127), RH)
        t3 == DecScale(DecScale(Dec(0, 2247, 5541), T_F), RH)
        t4 == DecScale(DecScale(Dec(0, 68, 3783), T_F), T_F)
        t5 == DecScale(DecScale(Dec(0, 548, 1717), RH), RH)
        t6 == DecScale(DecScale(DecScale(Dec(0, 12, 2874), T_F), T_F), RH)
        t7 == DecScale(DecScale(DecScale(Dec(0, 8, 5282), T_F), RH), RH)
        t8 == DecScale(DecScale(DecScale(DecScale(Dec(0, 0, 199), T_F), T_F), RH), RH)
        pos == DecAdd(DecAdd(DecAdd(t1, t2), t6), t7)
        neg == DecAdd(DecAdd(DecAdd(DecAdd(Dec(42, 3790, 0), t3), t4), t5), t8)
    IN  DecSub(pos, neg)

\* return (HI_F - 32) * 5/9: the Celsius value is n / d
Celsius(HI_F) == [n |-> DecScale(DecSub(HI_F, Dec(32, 0, 0)), 5), d |-> 9]

calculate_heat_index(T, RH) ==
    LET T_F == Fahrenheit(T)
    IN  IF T_F < BranchLimit
        THEN Celsius(SimpleFormula(T_F, RH))
        ELSE Celsius(Rothfusz(T_F, RH))

WarmLimit == 27

\* uncomfortable_chance = 0, raised only if temp_avg > 27
UncomfortableChance(temp_avg) == 0

ScoreKeys == <<"temperature", "wind", "rain", "humidity">>

\* sum(weights.dict().values())
TotalWeight(weights) ==
    weights.temperature + weights.wind + weights.rain + weights.humidity

\* sum(scores[key] * weights.dict()[key] for key in scores)
WeightedScore(scores, weights) ==
    SumSeq([k \in 1..4 |-> scores[ScoreKeys[k]] * weights[ScoreKeys[k]]])

\* a value, or the exception raised in its place
Value(v) == [raised |-> FALSE, value |-> v]

Raised(e) == [raised |-> TRUE, exc |-> e]

\* round(x / y * 100) for y # 0
RoundPercent(x, y) == IF y > 0 THEN PyRound(100 * x, y) ELSE PyRound(-100 * x, -y)

OverallScoreUnguarded(scores, weights) ==
    IF TotalWeight(weights) = 0 THEN Raised("ZeroDivisionError")
    ELSE Value(RoundPercent(WeightedScore(scores, weights), TotalWeight(weights)))

OverallScoreByCount(scores, weights) ==
    Value(RoundPercent(WeightedScore(scores, weights), 4))

\* overall_score = round((weighted_score / total_weight) * 100)
\*                 if total_weight > 0 else 0
OverallScore(scores, weights) ==
    IF TotalWeight(weights) > 0
    THEN Value(RoundPercent(WeightedScore(scores, weights), TotalWeight(weights)))
    ELSE Value(0)

FetchErrorResult == [error |-> "Failed to fetch data from NASA POWER API"]

ProcessErrorResult == [error |-> "Failed to process data"]

Title(data) == IF "title" \in DOMAIN data THEN data.title ELSE "Unknown Location"

\* lines 67-157: the dict returned for a fetched body
ProcessData(data, month, profile, weights) ==
    IF ~MonthValid(month) THEN ProcessErrorResult
    ELSE
    LET key      == MonthNames[month]
        raw      == data.parameter
        temp_avg == Get(raw, "T2M", key, MissingDefault)
    IN
    IF IsMissingCode(temp_avg) THEN ProcessErrorResult
    ELSE
    LET temp_max == Get(raw, "T2M_MAX", key, temp_avg)
        temp_min == Get(raw, "T2M_MIN", key, temp_avg)
        temp_in_comfort == profile.temp_min <= temp_avg /\ temp_avg <= profile.temp_max
        wind_avg == Get(raw, "WS10M", key, 0)
        wind_max == Get(raw, "WS10M_MAX", key, wind_avg)
        wind_in_comfort == wind_avg <= profile.wind_max
        humidity_avg == Get(raw, "RH2M", key, 50)
        humidity_in_comfort == humidity_avg <= profile.humidity_max
        precip_avg_daily == Get(raw, "PRECTOTCORR", key, 0)
        rain_probability == RainProbability(precip_avg_daily)
        rain_in_comfort == rain_probability <= profile.rain_chance_max
        uncomfortable_chance == UncomfortableChance(temp_avg)
        clearness_index == Get(raw, "KT", key, 50)
        golden_hour_score == PyRound(clearness_index, 10)
        sunny_day_likelihood == clearness_index
        scores == [temperature |-> IF temp_in_comfort THEN 1 ELSE 0,
                   wind        |-> IF wind_in_comfort THEN 1 ELSE 0,
                   rain        |-> IF rain_in_comfort THEN 1 ELSE 0,
                   humidity    |-> IF humidity_in_comfort THEN 1 ELSE 0]
        overall == OverallScore(scores, weights)
    IN
    IF overall.raised THEN ProcessErrorResult
    ELSE
    [overall_score |-> overall.value,
     location |-> Title(data),
     atmospheric_signature |->
        [temperature |-> [avg |-> temp_avg, min |-> temp_min, max |-> temp_max,
                          meets_profile |-> temp_in_comfort],
         wind |-> [avg |-> wind_avg, max |-> wind_max,
                   meets_profile |-> wind_in_comfort],
         humidity |-> [avg |-> humidity_avg, meets_profile |-> humidity_in_comfort],
         precipitation |-> [avg_daily_amount |-> precip_avg_daily,
                            estimated_daily_chance |-> rain_probability,
                            meets_profile |-> rain_in_comfort],
         sunlight |-> [sunny_day_likelihood |-> sunny_day_likelihood,
                       clearness_index |-> clearness_index]],
     specialty_scores |->
        [uncomfortable_heat_chance |->
            IF uncomfortable_chance > 0 THEN uncomfortable_chance ELSE 0,
         golden_hour_quality |-> golden_hour_score,
         outdoor_activity_index |->
            PyRound(overall.value + sunny_day_likelihood, 2)]]

\* r and isinstance(r, dict) and 'overall_score' in r
IsSuccess(r) == "overall_score" \in DOMAIN r

---------------------------------------------------------------------------
(* The coroutines of get_climatological_analysis.  A task is               *)
(* [lat, lon, pc, data, result]: pc is "created" (not yet run), "fetching" *)
(* (suspended in await client.get), "returned" or "raised".                *)

FetchFailed == [failed |-> TRUE]

NewTask(sample, pc) ==
    [lat |-> sample.lat, lon |-> sample.lon, pc |-> pc, data |-> None, result |-> None]

OnFetchErrorPropagate == [pc |-> "raised", result |-> None]

\* except Exception as e: return {"error": ...}
OnFetchError == [pc |-> "returned", result |-> FetchErrorResult]

---------------------------------------------------------------------------
(* analyze_polygon: validation, aggregation and the except clauses *)

HTTPException(status, detail) ==
    [kind |-> "HTTPException", status |-> status, detail |-> detail]

Exception(kind, detail) == [kind |-> kind, detail |-> detail]

HandlerExceptAll(exc) == [status |-> 400, detail |-> exc.detail]

HandlerExceptServerError(exc) ==
    IF exc.kind = "HTTPException"
    THEN [status |-> exc.status, detail |-> exc.detail]
    ELSE [status |-> 500, detail |-> exc.detail]

\* except HTTPException: raise
\* except Exception as e: raise HTTPException(status_code=400, detail=str(e))
HandlerExcept(exc) ==
    IF exc.kind = "HTTPException"
    THEN [status |-> exc.status, detail |-> exc.detail]
    ELSE [status |-> 400, detail |-> exc.detail]

\* lines 89-112: the ring, or the exception raised on the way to the
\* bounding box.  polygon.coordinates is geometry.coordinates ([] when absent);
\* polygon.numeric is FALSE when the coordinates are not JSON numbers.
RingOf(polygon) ==
    IF polygon.coordinates = <<>>
    THEN Raised(Exception("ValueError", "Invalid polygon payload"))
    ELSE LET ring == polygon.coordinates[1]
         IN  IF ring = <<>>
             THEN Raised(Exception("ValueError", "min() arg is an empty sequence"))
             ELSE IF ~polygon.numeric
             THEN Raised(Exception("TypeError", "unsupported operand type(s)"))
             ELSE Value(ring)

\* successful = [r for r in results if ... 'overall_score' in r]
Successful(results) == SelectSeq(results, IsSuccess)

\* round(mean(values) * scale ... ): mean rounded to the digits that scale keeps
MeanRound(values, scale) == PyRound(scale * SumSeq(values), Len(values))

CountTrue(flags) == Cardinality({k \in 1..Len(flags) : flags[k]})

MajorityTwoThirds(flags, n) == 3 * CountTrue(flags) >= 2 * n

MajorityStrict(flags, n) == 2 * CountTrue(flags) > n

\* (sum(1 for t in temps if t.get('meets_profile')) / n) >= 0.5
Majority(flags, n) == 2 * CountTrue(flags) >= n

Field(seq, f) == [k \in 1..Len(seq) |-> seq[k][f]]

SampleMeetsAny(a) ==
    \/ a.temperature.meets_profile
    \/ a.wind.meets_profile
    \/ a.precipitation.meets_profile
    \/ a.humidity.meets_profile

\* return bool(t and w and p and h)
sample_meets(a) ==
    /\ a.temperature.meets_profile
    /\ a.wind.meets_profile
    /\ a.precipitation.meets_profile
    /\ a.humidity.meets_profile

RECURSIVE PerSampleZipSuccessful(_, _, _)
PerSampleZipSuccessful(smpls, results, i) ==
    LET successful == SelectSeq(results, IsSuccess)
    IN  IF i > Len(smpls) \/ i > Len(successful) THEN <<>>
        ELSE <<[lat |-> smpls[i].lat, lon |-> smpls[i].lon,
                overall_score |-> successful[i].overall_score,
                atmospheric_signature |-> successful[i].atmospheric_signature,
                specialty_scores |-> successful[i].specialty_scores]>>
             \o PerSampleZipSuccessful(smpls, results, i + 1)

\* for (lat, lon), res in zip(samples, results): if ... per_sample.append(...)
RECURSIVE PerSample(_, _, _)
PerSample(smpls, results, i) ==
    IF i > Len(smpls) \/ i > Len(results) THEN <<>>
    ELSE (IF IsSuccess(results[i])
          THEN <<[lat |-> smpls[i].lat, lon |-> smpls[i].lon,
                  overall_score |-> results[i].overall_score,
                  atmospheric_signature |-> results[i].atmospheric_signature,
                  specialty_scores |-> results[i].specialty_scores]>>
          ELSE <<>>) \o PerSample(smpls, results, i + 1)

AggregateSpecialReporting(spec) ==
    LET keys == UNION {DOMAIN spec[k] : k \in 1..Len(spec)}
    IN  [key \in keys |->
            LET having == SelectSeq(spec, LAMBDA d : key \in DOMAIN d)
            IN  MeanRound([k \in 1..Len(having) |-> having[k][key]], 1)]

\* keys = set().union(*(d.keys() for d in spec))
\* {k: round(mean([d.get(k, 0) for d in spec])) for k in keys}
AggregateSpecial(spec) ==
    LET keys == UNION {DOMAIN spec[k] : k \in 1..Len(spec)}
    IN  [key \in keys |->
            MeanRound([k \in 1..Len(spec) |->
                          IF key \in DOMAIN spec[k] THEN spec[k][key] ELSE 0], 1)]

\* lines 150-255.  Averages are held in the unit their rounding keeps:
\* tenths for round(x, 1), hundredths for round(x, 2).
Aggregate(smpls, results) ==
    LET successful == Successful(results)
    IN
    IF successful = <<>>
    THEN Raised(HTTPException(500, "All sample analyses failed"))
    ELSE
    LET n     == Len(successful)
        atms  == Field(successful, "atmospheric_signature")
        temps == Field(atms, "temperature")
        winds == Field(atms, "wind")
        hums  == Field(atms, "humidity")
        precs == Field(atms, "precipitation")
        suns  == Field(atms, "sunlight")
        meet_count == Cardinality({k \in 1..n : sample_meets(atms[k])})
    IN
    Value(
    [overall_score |-> MeanRound(Field(successful, "overall_score"), 1),
     location |-> successful[1].location,
     atmospheric_signature |->
        [temperature |-> [avg |-> MeanRound(Field(temps, "avg"), 10),
                          min |-> MeanRound(Field(temps, "min"), 10),
                          max |-> MeanRound(Field(temps, "max"), 10),
                          meets_profile |-> Majority(Field(temps, "meets_profile"), n)],
         wind |-> [avg |-> MeanRound(Field(winds, "avg"), 10),
                   max |-> MeanRound(Field(winds, "max"), 10),
                   meets_profile |-> Majority(Field(winds, "meets_profile"), n)],
         humidity |-> [avg |-> MeanRound(Field(hums, "avg"), 10),
                       meets_profile |-> Majority(Field(hums, "meets_profile"), n)],
         precipitation |->
                  [avg_daily_amount |-> MeanRound(Field(precs, "avg_daily_amount"), 100),
                   estimated_daily_chance |->
                       MeanRound(Field(precs, "estimated_daily_chance"), 10),
                   meets_profile |-> Majority(Field(precs, "meets_profile"), n)],
         sunlight |-> [sunny_day_likelihood |->
                           MeanRound(Field(suns, "sunny_day_likelihood"), 1),
                       clearness_index |-> MeanRound(Field(suns, "clearness_index"), 1)]],
     specialty_scores |-> AggregateSpecial(Field(successful, "specialty_scores")),
     final_verdict |-> [percent_meet_profile |-> PyRound(100 * meet_count, n),
                        samples_evaluated |-> n],
     samples |-> PerSample(smpls, results, 1)])

---------------------------------------------------------------------------
(* Inputs of the sampler *)

MaxRingLen == 3

Coords == {0, 1, 2}

Pts == Coords \X Coords

ShortRings == UNION {[1..k -> Pts] : k \in 1..MaxRingLen}

\* the corners of the axis-aligned square at (a, b) with edge s, counter-clockwise
Corners(a, b, s) == <<<<a, b>>, <<a + s, b>>, <<a + s, b + s>>, <<a, b + s>>>>

Rotate(sq, k) == [m \in 1..4 |-> sq[((m + k - 1) % 4) + 1]]

Reverse(sq) == [m \in 1..4 |-> sq[5 - m]]

OpenSquares ==
    LET base == {Corners(a, b, s) : a \in Coords, b \in Coords, s \in {1, 2}}
        ok   == {sq \in base : sq[3][1] \in Coords /\ sq[3][2] \in Coords}
        rot  == {Rotate(sq, k) : sq \in ok, k \in 0..3}
    IN  rot \cup {Reverse(sq) : sq \in rot}

\* GeoJSON rings repeat their first vertex at the end
SquareRings == OpenSquares \cup {Append(sq, sq[1]) : sq \in OpenSquares}

IsSquareRing(ring) == ring \in SquareRings

Rings == ShortRings \cup SquareRings

SampleCounts == {-1, 0, 1, 2, 3, 4, 5, 9, 10, 36, 37}

---------------------------------------------------------------------------
(* Specification of the sampler alone: generate_samples applied to every   *)
(* ring and sample_count of the input sets.                                *)

InitSampling ==
    /\ request \in [kind : {"sampling"}, ring : Rings, sample_count : SampleCounts]
    /\ hpc = "received"
    /\ samples = <<>>
    /\ tested = 0
    /\ tasks = <<>>
    /\ response = None

GenerateSamples ==
    /\ hpc = "received"
    /\ request.kind = "sampling"
    /\ LET b == BuildSamples(request.ring, request.sample_count)
       IN  /\ samples' = b.samples
           /\ tested' = b.tested
    /\ hpc' = "sampled"
    /\ UNCHANGED <<request, tasks, response>>

NextSampling == GenerateSamples

SpecSampling == InitSampling /\ [][NextSampling]_vars

---------------------------------------------------------------------------
(* Inputs of the point evaluator *)

MaxWeight == 2

MaxNegWeight == 1

WeightValues == (0 - MaxNegWeight)..MaxWeight

\* ComfortProfile(): temp_min 10, temp_max 25, wind_max 15, rain_chance_max 20,
\* humidity_max 80
DefaultProfile ==
    [temp_min |-> 10, temp_max |-> 25, wind_max |-> 15,
     rain_chance_max |-> 20, humidity_max |-> 80]

NarrowProfile ==
    [temp_min |-> 18, temp_max |-> 22, wind_max |-> 10,
     rain_chance_max |-> 40, humidity_max |-> 50]

Profiles == {DefaultProfile, NarrowProfile}

\* a complete January body; every complete body has the same clearness index
Stats(t, w, h, p) ==
    [parameter |->
        [T2M |-> [JAN |-> t], T2M_MAX |-> [JAN |-> t + 4], T2M_MIN |-> [JAN |-> t - 5],
         WS10M |-> [JAN |-> w], WS10M_MAX |-> [JAN |-> w + 6],
         RH2M |-> [JAN |-> h], PRECTOTCORR |-> [JAN |-> p], KT |-> [JAN |-> 65]]]

\* bodies without a usable January temperature, and one with nothing else
NoTemperature == [parameter |-> [WS10M |-> [JAN |-> 5], RH2M |-> [JAN |-> 60]]]

OtherMonthOnly == [parameter |-> [T2M |-> [FEB |-> 20], WS10M |-> [JAN |-> 5]]]

TemperatureOnly == [parameter |-> [T2M |-> [JAN |-> WarmLimit]]]

PointData ==
    {Stats(t, w, h, p) : t \in {MissingDefault, 5, 20}, w \in {5, 20},
                         h \in {60, 90}, p \in {0, 2}}
        \cup {NoTemperature, OtherMonthOnly, TemperatureOnly}

PointRequests ==
    [kind : {"point"}, lat : {0}, lon : {0}, month : {1, 13}, day : {1},
     profile : Profiles,
     weights : [temperature : WeightValues, wind : WeightValues,
                rain : WeightValues, humidity : WeightValues]]

---------------------------------------------------------------------------
(* Inputs of the region endpoint *)

MaxRegionCount == 4

UnitWeights == [temperature |-> 1, wind |-> 1, rain |-> 1, humidity |-> 1]

\* the weights suggested by get_profile_from_climatology (1.5, 1, 2, 1), doubled
SuggestedWeights == [temperature |-> 3, wind |-> 2, rain |-> 4, humidity |-> 2]

NoTemperatureWeight == [temperature |-> 0, wind |-> 1, rain |-> 1, humidity |-> 1]

ClosedSquare == <<<<0, 0>>, <<2, 0>>, <<2, 2>>, <<0, 2>>, <<0, 0>>>>

Triangle == <<<<0, 0>>, <<2, 0>>, <<0, 2>>>>

Segment == <<<<0, 0>>, <<0, 2>>>>

Sliver == <<<<0, 0>>, <<2, 1>>>>

RegionPolygons ==
    {[coordinates |-> <<ring>>, numeric |-> TRUE] :
        ring \in {ClosedSquare, Triangle, Segment, Sliver}}
      \cup {[coordinates |-> <<>>, numeric |-> TRUE],
            [coordinates |-> << <<>> >>, numeric |-> TRUE],
            [coordinates |-> <<ClosedSquare>>, numeric |-> FALSE]}

RegionRequests ==
    [kind : {"polygon"}, polygon : RegionPolygons, month : {1}, day : {1},
     profile : Profiles,
     weights : {UnitWeights, SuggestedWeights, NoTemperatureWeight},
     sample_count : 0..MaxRegionCount]

SiteMild == [title |-> "Mild"] @@ Stats(20, 5, 60, 0)

SiteCold == [title |-> "Cold"] @@ Stats(5, 5, 60, 0)

SiteStorm == Stats(20, 20, 90, 2)

RegionData == {SiteMild, SiteCold, SiteStorm, NoTemperature}

---------------------------------------------------------------------------
(* Steps of one get_climatological_analysis coroutine (both endpoints) *)

\* the coroutine runs up to await client.get(...)
TaskStart(i) ==
    /\ tasks[i].pc = "created"
    /\ tasks' = [tasks EXCEPT ![i].pc = "fetching"]
    /\ UNCHANGED <<request, hpc, samples, tested, response>>

\* client.get or raise_for_status or response.json() raises
FetchFail(i) ==
    /\ tasks[i].pc = "fetching"
    /\ tasks' = [tasks EXCEPT ![i] = [@ EXCEPT !.pc = OnFetchError.pc,
                                                !.data = FetchFailed,
                                                !.result = OnFetchError.result]]
    /\ UNCHANGED <<request, hpc, samples, tested, response>>

\* the body d arrives and is processed to the returned dict
FetchOk(i, d) ==
    /\ tasks[i].pc = "fetching"
    /\ tasks' = [tasks EXCEPT ![i] =
                    [@ EXCEPT !.pc = "returned",
                              !.data = d,
                              !.result = ProcessData(d, request.month,
                                                     request.profile, request.weights)]]
    /\ UNCHANGED <<request, hpc, samples, tested, response>>

---------------------------------------------------------------------------
(* analyze_point: main.py lines 61-79 *)

InitPoint ==
    /\ request \in PointRequests
    /\ hpc = "received"
    /\ samples = <<>>
    /\ tested = 0
    /\ tasks = <<>>
    /\ response = None

\* await get_climatological_analysis(...): the coroutine runs in the handler
\* up to its await client.get
AnalyzePointCall ==
    /\ hpc = "received"
    /\ request.kind = "point"
    /\ tasks' = <<NewTask([lat |-> Rat(request.lat, 1), lon |-> Rat(request.lon, 1)],
                          "fetching")>>
    /\ hpc' = "awaiting"
    /\ UNCHANGED <<request, samples, tested, response>>

\* if "error" in analysis_result: raise HTTPException(500, ...) else return it
AnalyzePointReturn ==
    /\ hpc = "awaiting"
    /\ tasks[1].pc \in {"returned", "raised"}
    /\ response' =
          IF tasks[1].pc = "raised"
          THEN [status |-> 500, detail |-> "Internal Server Error"]
          ELSE IF "error" \in DOMAIN tasks[1].result
          THEN [status |-> 500, detail |-> tasks[1].result.error]
          ELSE [status |-> 200, body |-> tasks[1].result]
    /\ hpc' = "responded"
    /\ UNCHANGED <<request, samples, tested, tasks>>

NextPoint ==
    \/ AnalyzePointCall
    \/ \E i \in 1..Len(tasks) : FetchFail(i)
    \/ \E i \in 1..Len(tasks) : \E d \in PointData : FetchOk(i, d)
    \/ AnalyzePointReturn

SpecPoint == InitPoint /\ [][NextPoint]_vars

---------------------------------------------------------------------------
(* analyze_polygon: main.py lines 82-259 *)

InitRegion ==
    /\ request \in RegionRequests
    /\ hpc = "received"
    /\ samples = <<>>
    /\ tested = 0
    /\ tasks = <<>>
    /\ response = None

\* lines 88-147 up to the await: validate, sample, create one coroutine per
\* sample and hand them to asyncio.gather
AnalyzePolygonCall ==
    /\ hpc = "received"
    /\ request.kind = "polygon"
    /\ LET ring == RingOf(request.polygon)
       IN  IF ring.raised
           THEN /\ response' = HandlerExcept(ring.exc)
                /\ hpc' = "responded"
                /\ UNCHANGED <<samples, tested, tasks>>
           ELSE LET b == BuildSamples(ring.value, request.sample_count)
                IN  /\ samples' = b.samples
                    /\ tested' = b.tested
                    /\ tasks' = [k \in 1..Len(b.samples) |->
                                    NewTask(b.samples[k], "created")]
                    /\ hpc' = "gathering"
                    /\ UNCHANGED response
    /\ UNCHANGED request

\* results = await asyncio.gather(*tasks), then lines 149-259.  gather
\* resumes the handler with the ordered results once every coroutine has
\* returned, or with the exception of the first coroutine that raised.
GatherReturn ==
    /\ hpc = "gathering"
    /\ IF \E i \in 1..Len(tasks) : tasks[i].pc = "raised"
       THEN response' = HandlerExcept(Exception("Exception", "raised in a sample"))
       ELSE /\ \A i \in 1..Len(tasks) : tasks[i].pc = "returned"
            /\ LET out == Aggregate(samples, Field(tasks, "result"))
               IN  response' = IF out.raised THEN HandlerExcept(out.exc)
                               ELSE [status |-> 200, body |-> out.value]
    /\ hpc' = "responded"
    /\ UNCHANGED <<request, samples, tested, tasks>>

NextRegion ==
    \/ AnalyzePolygonCall
    \/ \E i \in 1..Len(tasks) : TaskStart(i)
    \/ \E i \in 1..Len(tasks) : FetchFail(i)
    \/ \E i \in 1..Len(tasks) : \E d \in RegionData : FetchOk(i, d)
    \/ GatherReturn

SpecRegion == InitRegion /\ [][NextRegion]_vars

---------------------------------------------------------------------------
(* The specialty-score aggregation of analyze_polygon (lines 221-225) as a *)
(* function of the successful samples' specialty_scores.  The aggregation  *)
(* reads every dict with d.get(k, 0): it accepts a sample that lacks a key,*)
(* although no evaluation of nasa_service.py omits one.  The inputs hold   *)
(* the evaluator's three keys, each absent or present with a low or a high *)
(* score.                                                                  *)

MaxSpecLen == 3

SpecialKeys == {"uncomfortable_heat_chance", "golden_hour_quality", "outdoor_activity_index"}

SpecialValues == {1, 10}

SpecialDicts == UNION {[ks -> SpecialValues] : ks \in SUBSET SpecialKeys}

SpecialLists == UNION {[1..k -> SpecialDicts] : k \in 1..MaxSpecLen}

InitSpecial ==
    /\ request \in [kind : {"special"}, spec : SpecialLists]
    /\ hpc = "received"
    /\ samples = <<>>
    /\ tested = 0
    /\ tasks = <<>>
    /\ response = None

\* aggregated['specialty_scores'] = aggregated_special
AggregateSpecialScores ==
    /\ hpc = "received"
    /\ request.kind = "special"
    /\ response' = AggregateSpecial(request.spec)
    /\ hpc' = "responded"
    /\ UNCHANGED <<request, samples, tested, tasks>>

NextSpecial == AggregateSpecialScores

SpecSpecial == InitSpecial /\ [][NextSpecial]_vars

---------------------------------------------------------------------------
(* calculate_heat_index as a function of the temperature and the humidity. *)
(* The temperatures are the Celsius readings on the whole degrees          *)
(* Fahrenheit around the branch limit; the humidities are every whole      *)
(* percent.                                                                *)

HeatSpan == 3

HeatTemperatures ==
    {Rat(5 * (f - 32), 9) : f \in (BranchLimit - HeatSpan)..(BranchLimit + HeatSpan)}

HeatHumidities == 0..100

InitHeat ==
    /\ request \in [kind : {"heat"}, T : HeatTemperatures, RH : HeatHumidities]
    /\ hpc = "received"
    /\ samples = <<>>
    /\ tested = 0
    /\ tasks = <<>>
    /\ response = None

\* heat_index_avg = calculate_heat_index(temp_avg, humidity_avg)
CalculateHeatIndex ==
    /\ hpc = "received"
    /\ request.kind = "heat"
    /\ response' = calculate_heat_index(request.T, request.RH)
    /\ hpc' = "responded"
    /\ UNCHANGED <<request, samples, tested, tasks>>

NextHeat == CalculateHeatIndex

SpecHeat == InitHeat /\ [][NextHeat]_vars

---------------------------------------------------------------------------
(* Properties of the point evaluator (SpecPoint) *)

Returned == {i \in 1..Len(tasks) : tasks[i].pc = "returned"}

WeightsNonNegative ==
    /\ request.weights.temperature >= 0
    /\ request.weights.wind >= 0
    /\ request.weights.rain >= 0
    /\ request.weights.humidity >= 0

WeightSum ==
    request.weights.temperature + request.weights.wind
        + request.weights.rain + request.weights.humidity

\* the body of task i carries a usable average temperature for the month asked
TemperatureUsable(i) ==
    /\ tasks[i].data # FetchFailed
    /\ request.month \in 1..12
    /\ "T2M" \in DOMAIN tasks[i].data.parameter
    /\ MonthNames[request.month] \in DOMAIN tasks[i].data.parameter.T2M
    /\ tasks[i].data.parameter.T2M[MonthNames[request.month]] # -999

\* C1: every successful point evaluation made with non-negative weights has
\* an integer overall_score between 0 and 100, whatever the profile and the
\* pass/fail pattern of the four dimensions.
C1_ScoreInRange ==
    \A i \in Returned :
        ("overall_score" \in DOMAIN tasks[i].result /\ WeightsNonNegative) =>
            tasks[i].result.overall_score \in 0..100

C1_Witness ==
    \E i \in Returned :
        /\ "overall_score" \in DOMAIN tasks[i].result
        /\ WeightsNonNegative
        /\ request.weights.temperature # request.weights.wind
        /\ tasks[i].result.overall_score > 0
        /\ tasks[i].result.overall_score < 100

\* C2: when the four weights sum to 0 the evaluation of a usable body still
\* succeeds (no division by zero is raised) and its overall_score is 0,
\* whichever dimensions pass.
C2_ZeroWeightScoresZero ==
    \A i \in Returned :
        (TemperatureUsable(i) /\ WeightSum = 0) =>
            /\ "overall_score" \in DOMAIN tasks[i].result
            /\ tasks[i].result.overall_score = 0

C2_Witness ==
    \E i \in Returned :
        /\ WeightSum = 0
        /\ WeightsNonNegative
        /\ "overall_score" \in DOMAIN tasks[i].result
        /\ tasks[i].result.overall_score = 0
        /\ tasks[i].result.atmospheric_signature.temperature.meets_profile
        /\ tasks[i].result.atmospheric_signature.wind.meets_profile
        /\ tasks[i].result.atmospheric_signature.humidity.meets_profile
        /\ tasks[i].result.atmospheric_signature.precipitation.meets_profile

\* C3: a point evaluation returns exactly one of 'error' and
\* 'overall_score'; a failed fetch, an absent January temperature or the
\* sentinel -999 gives the error outcome, and only a result with
\* overall_score is answered with 200.
C3_SucceedsOrFails ==
    /\ \A i \in Returned :
          /\ ("error" \in DOMAIN tasks[i].result)
                # ("overall_score" \in DOMAIN tasks[i].result)
          /\ ~TemperatureUsable(i) =>
                /\ "error" \in DOMAIN tasks[i].result
                /\ "overall_score" \notin DOMAIN tasks[i].result
    /\ (hpc = "responded" /\ request.kind = "point") =>
          IF "overall_score" \in DOMAIN tasks[1].result
          THEN response.status = 200 /\ response.body = tasks[1].result
          ELSE response.status = 500 /\ "body" \notin DOMAIN response

C3_Witness ==
    /\ hpc = "responded"
    /\ request.kind = "point"
    /\ request.month = 1
    /\ tasks[1].data # FetchFailed
    /\ "T2M" \in DOMAIN tasks[1].data.parameter
    /\ "JAN" \in DOMAIN tasks[1].data.parameter.T2M
    /\ tasks[1].data.parameter.T2M.JAN = -999
    /\ "error" \in DOMAIN tasks[1].result
    /\ response.status = 500

---------------------------------------------------------------------------
(* Properties of the region endpoint (SpecRegion) *)

Succeeded == {i \in Returned : "overall_score" \in DOMAIN tasks[i].result}

Answered == hpc = "responded" /\ tasks # <<>>

MeetsIn(i, dim) == tasks[i].result.atmospheric_signature[dim].meets_profile

MeetsAll(i) ==
    \A dim \in {"temperature", "wind", "humidity", "precipitation"} : MeetsIn(i, dim)

\* C6: once samples were launched the request fails with 500 'All sample
\* analyses failed' exactly when no sample succeeded, and it is answered
\* with an aggregate as soon as one sample succeeded, however many failed.
C6_FailsOnlyWhenAllFail ==
    Answered =>
        /\ (Succeeded = {}) <=>
              (response.status = 500 /\ response.detail = "All sample analyses failed")
        /\ (Succeeded # {}) => (response.status = 200 /\ "body" \in DOMAIN response)

C6_Witness ==
    /\ Answered
    /\ response.status = 200
    /\ Cardinality(Succeeded) = 1
    /\ \E i \in Returned : tasks[i].data = FetchFailed
    /\ \E i \in Returned : tasks[i].data = NoTemperature

\* C7: in the aggregate each of temperature, wind, humidity and
\* precipitation meets the profile iff at least half of the n successful
\* samples do (2 k >= n; failed samples are not counted).
C7_MajorityVote ==
    (Answered /\ response.status = 200) =>
        \A dim \in {"temperature", "wind", "humidity", "precipitation"} :
            response.body.atmospheric_signature[dim].meets_profile
                <=> (2 * Cardinality({i \in Succeeded : MeetsIn(i, dim)})
                        >= Cardinality(Succeeded))

C7_Witness ==
    /\ Answered
    /\ response.status = 200
    /\ Cardinality(Succeeded) = 2
    /\ Len(tasks) > 2
    /\ Cardinality({i \in Succeeded : MeetsIn(i, "temperature")}) = 1
    /\ response.body.atmospheric_signature.temperature.meets_profile
    /\ Cardinality({i \in Succeeded : MeetsIn(i, "humidity")}) = 0
    /\ ~response.body.atmospheric_signature.humidity.meets_profile

\* C8: samples_evaluated is the number of successful samples n, and
\* percent_meet_profile is 100 m / n rounded to the nearest integer, m being
\* the successful samples that meet the profile on all four dimensions; it
\* lies between 0 and 100.
C8_PercentMeetProfile ==
    (Answered /\ response.status = 200) =>
        LET n == Cardinality(Succeeded)
            m == Cardinality({i \in Succeeded : MeetsAll(i)})
            v == response.body.final_verdict
            d == v.percent_meet_profile * n - 100 * m
        IN  /\ v.samples_evaluated = n
            /\ 2 * d <= n
            /\ 2 * d >= 0 - n
            /\ v.percent_meet_profile \in 0..100

C8_Witness ==
    /\ Answered
    /\ response.status = 200
    /\ Len(tasks) = 4
    /\ Cardinality(Succeeded) = 3
    /\ Cardinality({i \in Succeeded : MeetsAll(i)}) = 1
    /\ response.body.final_verdict.percent_meet_profile = 33
    /\ \E i \in Succeeded : ~MeetsAll(i) /\ tasks[i].result.overall_score = 100

\* C9: no evaluation waits for another one (a created coroutine can always
\* start, a fetching one can always fail or complete), and the handler is
\* resumed only after every launched evaluation has returned: no answer
\* exists while one is pending, also after another one failed.
C9_JoinAfterAllSettled ==
    /\ Answered => \A i \in 1..Len(tasks) : tasks[i].pc = "returned"
    /\ hpc = "gathering" =>
          \A i \in 1..Len(tasks) :
              /\ tasks[i].pc = "created" => ENABLED TaskStart(i)
              /\ tasks[i].pc = "fetching" =>
                    (ENABLED FetchFail(i)) /\ (ENABLED FetchOk(i, NoTemperature))
    /\ (hpc = "gathering" /\ \E i \in 1..Len(tasks) : tasks[i].pc # "returned") =>
          (response = None /\ ~ENABLED GatherReturn)

C9_Witness ==
    /\ hpc = "gathering"
    /\ \E i, j, k \in 1..Len(tasks) :
          /\ tasks[i].pc = "returned" /\ tasks[i].data = FetchFailed
          /\ tasks[j].pc = "fetching"
          /\ tasks[k].pc = "returned" /\ "overall_score" \in DOMAIN tasks[k].result
          /\ j < i

\* the k-th successful sample in sample order
NthSucceeded(k) == CHOOSE i \in Succeeded : Cardinality({j \in Succeeded : j < i}) = k - 1

\* C14: the per-sample list of a returned aggregate has one entry per
\* successful evaluation (as many as samples_evaluated), in sample order, and
\* the entry of sample i holds the coordinate of sample i with the score,
\* signature and specialty scores that the evaluation of sample i returned,
\* in whatever order the evaluations completed and whichever failed.
C14_PerSampleInOrder ==
    (Answered /\ response.status = 200) =>
        /\ Len(response.body.samples) = Cardinality(Succeeded)
        /\ Len(response.body.samples) = response.body.final_verdict.samples_evaluated
        /\ \A k \in 1..Len(response.body.samples) :
              LET i == NthSucceeded(k)
                  e == response.body.samples[k]
              IN  /\ e.lat = samples[i].lat
                  /\ e.lon = samples[i].lon
                  /\ e.lat = tasks[i].lat
                  /\ e.lon = tasks[i].lon
                  /\ e.overall_score = tasks[i].result.overall_score
                  /\ e.atmospheric_signature = tasks[i].result.atmospheric_signature
                  /\ e.specialty_scores = tasks[i].result.specialty_scores

\* the first sample failed, the second and the third succeeded on different
\* data: the two entries are those of samples 2 and 3
C14_Witness ==
    /\ Answered
    /\ response.status = 200
    /\ Len(tasks) >= 3
    /\ tasks[1].data = FetchFailed
    /\ tasks[2].data = SiteCold
    /\ tasks[3].data = SiteMild
    /\ Len(response.body.samples) = 2
    /\ response.body.samples[1].lat = samples[2].lat
    /\ response.body.samples[1].lon = samples[2].lon
    /\ response.body.samples[1].overall_score # response.body.samples[2].overall_score

\* the polygon has no coordinates, an empty ring or coordinates that are not
\* numbers
Malformed(polygon) ==
    \/ Len(polygon.coordinates) = 0
    \/ Len(polygon.coordinates[1]) = 0
    \/ ~polygon.numeric

C16_VerdictImpliesDimensions ==
    (Answered /\ response.status = 200) =>
        LET meeting == {i \in Succeeded : MeetsAll(i)}
            flags   == \A dim \in {"temperature", "wind", "humidity", "precipitation"} :
                          response.body.atmospheric_signature[dim].meets_profile
        IN  /\ (2 * Cardinality(meeting) >= Cardinality(Succeeded)) => flags
            /\ (response.body.final_verdict.percent_meet_profile = 100) => flags

\* two successful samples, one meeting the whole profile and one missing the
\* temperature: exactly half meet it and every dimension is reported as met
C16_Witness ==
    /\ Answered
    /\ response.status = 200
    /\ Cardinality(Succeeded) = 2
    /\ Cardinality({i \in Succeeded : MeetsAll(i)}) = 1
    /\ \E i \in Succeeded : ~MeetsIn(i, "temperature")
    /\ response.body.final_verdict.percent_meet_profile = 50
    /\ response.body.atmospheric_signature.temperature.meets_profile

---------------------------------------------------------------------------
(* Properties of the sampler (SpecSampling) *)

RingLons == {request.ring[k][1] : k \in 1..Len(request.ring)}

RingLats == {request.ring[k][2] : k \in 1..Len(request.ring)}

\* C4: for every non-empty ring and every sample_count, below 1 and above 36
\* included, the sample list is non-empty and no longer than
\* max(1, min(36, sample_count)), hence never longer than 36.
C4_SampleCountBounded ==
    hpc = "sampled" =>
        LET sc == request.sample_count
            t  == IF sc < 1 THEN 1 ELSE IF sc > 36 THEN 36 ELSE sc
        IN  /\ Len(samples) >= 1
            /\ Len(samples) <= t
            /\ Len(samples) <= 36

C4_Witness ==
    /\ hpc = "sampled"
    /\ request.sample_count > 36
    /\ Len(samples) = 36

\* C5: a bounding box of zero width or zero height yields exactly one sample,
\* at the arithmetic means of the ring's latitudes and longitudes, whatever
\* the target sample count.
C5_DegenerateIsCentroid ==
    (hpc = "sampled" /\ (Cardinality(RingLons) = 1 \/ Cardinality(RingLats) = 1)) =>
        /\ Len(samples) = 1
        /\ samples[1].lat.n * Len(request.ring)
              = SumSeq(Lats(request.ring)) * samples[1].lat.d
        /\ samples[1].lon.n * Len(request.ring)
              = SumSeq(Lons(request.ring)) * samples[1].lon.d

C5_Witness ==
    /\ hpc = "sampled"
    /\ Cardinality(RingLons) = 1
    /\ Cardinality(RingLats) = 2
    /\ Len(request.ring) = 3
    /\ request.sample_count = 9
    /\ Len(samples) = 1

\* the centre of cell (i, j) of the 3 x 3 grid over the square whose lower
\* corner is (a, b) and whose edge is s: (a + s (2 i + 1) / 6, b + s (2 j + 1) / 6)
IsCentre3(p, a, b, s, i, j) ==
    /\ p.lon.n * 6 = (6 * a + s * (2 * i + 1)) * p.lon.d
    /\ p.lat.n * 6 = (6 * b + s * (2 * j + 1)) * p.lat.d

\* C10: with target 9 an axis-aligned square is sampled on a 3 x 3 grid and
\* all nine cell centres are kept: nine samples, nine cells tested, every
\* centre present.
C10_SquareNineSamples ==
    (hpc = "sampled" /\ IsSquareRing(request.ring) /\ request.sample_count = 9) =>
        LET a == MinSeq(Lons(request.ring))
            b == MinSeq(Lats(request.ring))
            s == MaxSeq(Lons(request.ring)) - a
        IN  /\ Len(samples) = 9
            /\ tested = 9
            /\ \A i \in 0..2, j \in 0..2 :
                  \E k \in 1..Len(samples) : IsCentre3(samples[k], a, b, s, i, j)

C10_Witness ==
    /\ hpc = "sampled"
    /\ IsSquareRing(request.ring)
    /\ Len(request.ring) = 5
    /\ request.sample_count = 9
    /\ Len(samples) = 9

\* the target and the grid side of the request, restated
ScanTarget ==
    LET sc == request.sample_count
    IN  IF sc < 1 THEN 1 ELSE IF sc > 36 THEN 36 ELSE sc

ScanSide == CHOOSE s \in 1..6 : s * s >= ScanTarget /\ (s - 1) * (s - 1) < ScanTarget

\* the cells, numbered i * side + j, whose centre the ray-casting test puts inside
InsideCells ==
    {c \in 0..(ScanSide * ScanSide - 1) :
        LET p == CellCentre(request.ring, ScanSide, c \div ScanSide, c % ScanSide)
        IN  point_in_poly(p.lon, p.lat, request.ring)}

\* the k-th cell of ins in scan order
NthInside(ins, k) == CHOOSE c \in ins : Cardinality({d \in ins : d < c}) = k - 1

\* C13: over a non-degenerate bounding box, with S the inside cell centres in
\* scan order (i outer, j inner): if S is non-empty the samples are the first
\* min(target, |S|) elements of S in order and no cell after the one that
\* fills the cap is tested; if S is empty the only sample is the centroid.
C13_ScanOrderPrefix ==
    (hpc = "sampled" /\ Cardinality(RingLons) > 1 /\ Cardinality(RingLats) > 1) =>
        LET ins  == InsideCells
            side == ScanSide
            kept == IF ScanTarget < Cardinality(ins) THEN ScanTarget
                    ELSE Cardinality(ins)
        IN
        IF ins # {}
        THEN /\ Len(samples) = kept
             /\ \A k \in 1..kept :
                   LET c == NthInside(ins, k)
                   IN  samples[k] = CellCentre(request.ring, side, c \div side, c % side)
             /\ tested = IF Cardinality(ins) >= ScanTarget
                         THEN NthInside(ins, ScanTarget) + 1
                         ELSE side * side
        ELSE /\ Len(samples) = 1
             /\ samples[1].lat.n * Len(request.ring)
                   = SumSeq(Lats(request.ring)) * samples[1].lat.d
             /\ samples[1].lon.n * Len(request.ring)
                   = SumSeq(Lons(request.ring)) * samples[1].lon.d

\* a triangle on a 3 x 3 grid, some cells outside, the cap of 5 filled before
\* the scan reaches the last cell
C13_Witness ==
    /\ hpc = "sampled"
    /\ Len(request.ring) = 3
    /\ request.sample_count = 5
    /\ Cardinality(InsideCells) > 5
    /\ Cardinality(InsideCells) < 9
    /\ Len(samples) = 5
    /\ tested < 9
    /\ tested > 5

---------------------------------------------------------------------------
(* Properties of the specialty-score aggregation (SpecSpecial) *)

Reporting(key) == {k \in 1..Len(request.spec) : key \in DOMAIN request.spec[k]}

RECURSIVE SumOver(_, _)
SumOver(key, ks) ==
    IF ks = {} THEN 0
    ELSE LET k == CHOOSE x \in ks : TRUE
         IN  request.spec[k][key] + SumOver(key, ks \ {k})

\* v is x / y rounded to the nearest integer, a tie going to the even one
IsRounded(v, x, y) ==
    /\ 2 * (v * y - x) <= y
    /\ 2 * (x - v * y) <= y
    /\ (2 * (v * y - x) = y \/ 2 * (x - v * y) = y) => v % 2 = 0

---------------------------------------------------------------------------
(* Properties of calculate_heat_index (SpecHeat) *)

\* one millionth of a degree Fahrenheit, far above the rounding of a double
HeatTolerance == Dec(0, 0, 100)

\* C12: at T_F = 80, for every humidity 0..100, the value the function returns
\* (the Rothfusz regression) and the value the simplified formula gives at
\* T_F = 80 differ by no more than a rounding tolerance.
C12_ContinuousAtBranch ==
    (request.kind = "heat" /\ hpc = "responded"
        /\ Fahrenheit(request.T) = BranchLimit) =>
        DecLeq(DecAbs(DecSub(response.n,
                             Celsius(SimpleFormula(BranchLimit, request.RH)).n)),
               DecScale(HeatTolerance, 5))

====
